---- MODULE Spec2Model ----
(***************************************************************************)
(* Model of src/helpers/fastmcp_patch.py: the replacement of               *)
(* fastmcp.tools.tool.FunctionTool.run by _run_with_arg_sanitizer, which   *)
(* drops the payload keys the tool's function does not declare before the  *)
(* genuine FunctionTool.run (FastMCP's validator) sees the payload.        *)
(***************************************************************************)
EXTENDS Integers, Sequences, FiniteSets, TLC

(* ------------------------------ bounds -------------------------------- *)

\* Number of calls of FunctionTool.run a behaviour makes.
MaxCalls == 2

\* Key names are 1..MaxKey; a name's number is its rank in sorted() order.
MaxKey == 2

\* Depth at which the interpreter raises RecursionError (sys.getrecursionlimit(),
\* 1000 in CPython, kept small here).
RecursionLimit == 2

\* Number of times the module's top-level code is run again after the import.
MaxInstalls == 1

(* ------------------------------ domains ------------------------------- *)

Keys == 1..MaxKey

\* The FunctionTool instance the calls are made on.
Tools == {"t1"}

\* The tasks (coroutines on the event loop, or threads) that call
\* FunctionTool.run; a task makes one call at a time.
Tasks == {"a", "b"}

\* Module namespaces in which the patch module's code can be executed:
\* "helpers.fastmcp_patch" and the same file under a second module name.
Modules == {"m1", "m2"}

\* The method FastMCP ships as FunctionTool.run.
Genuine == "FunctionTool.run"

\* A name that is not bound.
Unbound == "unbound"

\* An instance attribute: absent, or set to a value.
NoAttr == [has |-> FALSE, value |-> <<>>]
Attr(v) == [has |-> TRUE, value |-> v]

\* The value a payload carries under key k.
ValueOf(k) == <<"value", k>>
NoneValue == <<"None", 0>>
EmptyMap == [k \in {} |-> NoneValue]

\* Payloads: dicts with string keys, and the non-dict shapes.
DictPayloads ==
    { [kind |-> "dict", map |-> [k \in D |-> ValueOf(k)]] : D \in SUBSET Keys }
NonDictPayloads ==
    { [kind |-> k, map |-> EmptyMap] : k \in {"str", "list", "none"} }
Payloads == DictPayloads \cup NonDictPayloads

\* inspect.Signature.parameters of a function: its parameters in declaration
\* order, each with its name.
InjectiveSeqs(S) ==
    UNION { { s \in [1..n -> S] : \A i, j \in 1..n : i # j => s[i] # s[j] }
            : n \in 0..Cardinality(S) }
Signatures == { [i \in DOMAIN s |-> [name |-> s[i]]] : s \in InjectiveSeqs(Keys) }

\* The callables a tool can wrap: one with a signature, or one whose signature
\* inspect.signature cannot determine (it raises ValueError).
Opaque == [introspectable |-> FALSE, parameters |-> <<>>]
Fns == { [introspectable |-> TRUE, parameters |-> s] : s \in Signatures } \cup {Opaque}

\* What the genuine FunctionTool.run can answer: a result or a raised error.
NoOutcome == [kind |-> "none", val |-> "none"]
Outcomes == { [kind |-> "return", val |-> "result"],
              [kind |-> "raise", val |-> "ValidationError"] }

VARIABLES
    FunctionTool_run,   \* the function currently installed as FunctionTool.run
    installs,           \* number of times the module's code has been run again
    original_run,       \* _original_run of each module namespace
    tools,              \* the FunctionTool instances: name and fn
    cache,              \* _allowed_parameter_names of each instance, or NoAttr
    introspections,     \* number of inspect.signature(self.fn) calls per instance
    writes,             \* the values ever stored into each instance's cache slot
    mappingPasses,      \* number of wrapper frames run on a dict payload, per instance
    started,            \* number of calls begun so far
    calls               \* the current call of each task

vars == <<FunctionTool_run, installs, original_run, tools, cache, introspections, writes,
          mappingPasses, started, calls>>

(* --------------------------- pure functions --------------------------- *)

Range(s) == { s[i] : i \in DOMAIN s }

RECURSIVE SortedSeq(_)
\* sorted(S) for a set of key names.
SortedSeq(S) ==
    IF S = {} THEN <<>>
    ELSE LET m == CHOOSE x \in S : \A y \in S : x <= y
         IN <<m>> \o SortedSeq(S \ {m})

\* isinstance(arguments, dict)
IsDict(arguments) == arguments.kind = "dict"

\* Mutant: the cache slot is never found, so every call introspects again.
HasCacheNever(slot) == FALSE

\* hasattr(self, "_allowed_parameter_names")
HasCache(slot) == slot.has

\* tuple(signature.parameters.keys())
ParameterNames(signature) == [i \in DOMAIN signature |-> signature[i].name]

\* Mutant: {k: arguments.get(k) for k in allowed}, which adds the missing
\* parameters with None.
SanitizedWithDefaults(arguments, allowed) ==
    [kind |-> "dict",
     map |-> [k \in Range(allowed) |->
                IF k \in DOMAIN arguments.map THEN arguments.map[k] ELSE NoneValue]]

\* {k: v for k, v in arguments.items() if k in allowed}: a new dict
Sanitized(arguments, allowed) ==
    [kind |-> "dict",
     map |-> [k \in { x \in DOMAIN arguments.map : x \in Range(allowed) }
                |-> arguments.map[k]]]

\* len(sanitized) != len(arguments)
LengthsDiffer(sanitized, arguments) ==
    Cardinality(DOMAIN sanitized.map) # Cardinality(DOMAIN arguments.map)

RECURSIVE Reversed(_)
Reversed(s) == IF s = <<>> THEN <<>> ELSE Append(Reversed(Tail(s)), Head(s))

\* Mutant: the dropped keys in descending order.
RemovedDescending(arguments, allowed) ==
    Reversed(SortedSeq(DOMAIN arguments.map \ Range(allowed)))

\* sorted(set(arguments.keys()) - set(allowed))
Removed(arguments, allowed) == SortedSeq(DOMAIN arguments.map \ Range(allowed))

\* getattr(self, "name", ...)
ToolName(self) == tools[self].name

\* The records log.debug receives in one pass of the wrapper.
Diagnostics(self, sanitized, arguments, allowed) ==
    IF LengthsDiffer(sanitized, arguments)
    THEN << [name |-> ToolName(self), removed |-> Removed(arguments, allowed)] >>
    ELSE <<>>

\* Mutant: an error of the original is caught and raised as another error.
PassThroughWrapped(outcome) ==
    IF outcome.kind = "raise" THEN [kind |-> "raise", val |-> "RuntimeError"] ELSE outcome

\* `return await _original_run(...)`: the awaited outcome is the wrapper's.
PassThrough(outcome) == outcome

(* ------------------------------- state -------------------------------- *)

IdleCall ==
    [pc |-> "idle", tool |-> "none", callee |-> Unbound, line |-> "entry",
     arg |-> [kind |-> "none", map |-> EmptyMap], objs |-> <<>>, cur |-> 0, signature |-> <<>>, allowed |-> <<>>,
     received |-> <<>>, passes |-> 0, used |-> <<>>,
     diags |-> <<>>, steps |-> <<>>,
     origOutcome |-> NoOutcome, outcome |-> NoOutcome]

\* The module has been imported once: it captured the genuine run and
\* installed its wrapper.
Init ==
    /\ FunctionTool_run = "m1"
    /\ installs = 0
    /\ original_run = [m \in Modules |-> IF m = "m1" THEN Genuine ELSE Unbound]
    /\ tools \in { t \in [Tools -> [name : Tools, fn : Fns]] :
                     \A x \in Tools : t[x].name = x }
    /\ cache = [t \in Tools |-> NoAttr]
    /\ introspections = [t \in Tools |-> 0]
    /\ writes = [t \in Tools |-> {}]
    /\ mappingPasses = [t \in Tools |-> 0]
    /\ started = 0
    /\ calls = [c \in Tasks |-> IdleCall]

\* The payload object a call currently passes down; objs[1] is the caller's.
Arguments(c) == calls[c].objs[calls[c].cur]

\* A task calls tool.run(payload): FunctionTool.run is looked up.
Begin(c, t, p) ==
    /\ calls[c].pc \in {"idle", "done"}
    /\ started < MaxCalls
    /\ started' = started + 1
    /\ calls' = [calls EXCEPT ![c] =
                    [IdleCall EXCEPT !.pc = "call", !.tool = t,
                                     !.callee = FunctionTool_run,
                                     !.arg = p, !.objs = <<p>>, !.cur = 1]]
    /\ UNCHANGED <<FunctionTool_run, installs, original_run, tools, cache, introspections, writes,
                   mappingPasses>>

\* A wrapper frame is at its first line.
InWrapper(c) ==
    /\ calls[c].pc = "call"
    /\ calls[c].callee \in Modules
    /\ calls[c].line = "entry"
    /\ calls[c].passes < RecursionLimit

\* Mutant: a payload that is not a dict is replaced by an empty dict.
DelegateEmptyDict(c) ==
    /\ InWrapper(c)
    /\ ~IsDict(Arguments(c))
    /\ calls' = [calls EXCEPT ![c].callee = original_run[calls[c].callee],
                              ![c].passes = @ + 1,
                              ![c].objs = Append(@, [kind |-> "dict", map |-> EmptyMap]),
                              ![c].cur = Len(calls[c].objs) + 1]
    /\ UNCHANGED <<FunctionTool_run, installs, original_run, tools, cache, introspections,
                   writes, mappingPasses, started>>

\* Mutant: the allowlist is resolved before the shape of the payload is
\* looked at, so a payload that is not a dict is delegated after the resolution.
DelegateAfterResolve(c) ==
    LET t == calls[c].tool
        miss == ~cache[t].has
    IN
    /\ InWrapper(c)
    /\ ~IsDict(Arguments(c))
    /\ introspections' = [introspections EXCEPT ![t] = IF miss THEN @ + 1 ELSE @]
    /\ IF miss /\ ~tools[t].fn.introspectable
       THEN /\ calls' = [calls EXCEPT ![c].pc = "done",
                                     ![c].passes = @ + 1,
                                     ![c].steps = Append(@, "introspection error"),
                                     ![c].outcome = [kind |-> "raise", val |-> "ValueError"]]
            /\ UNCHANGED <<cache, writes>>
       ELSE LET slot == IF miss THEN Attr([i \in DOMAIN tools[t].fn.parameters |->
                                             tools[t].fn.parameters[i].name])
                        ELSE cache[t]
            IN /\ cache' = [cache EXCEPT ![t] = slot]
               /\ writes' = [writes EXCEPT ![t] = IF miss THEN @ \cup {slot.value} ELSE @]
               /\ calls' = [calls EXCEPT ![c].callee = original_run[calls[c].callee],
                                         ![c].passes = @ + 1,
                                         ![c].steps = Append(@, "resolve")]
    /\ UNCHANGED <<FunctionTool_run, installs, original_run, tools, mappingPasses, started>>

\* Lines 38-39: a payload that is not a dict goes to _original_run as it is.
DelegateUnchanged(c) ==
    /\ InWrapper(c)
    /\ ~IsDict(Arguments(c))
    /\ calls' = [calls EXCEPT ![c].callee = original_run[calls[c].callee],
                              ![c].passes = @ + 1]
    /\ UNCHANGED <<FunctionTool_run, installs, original_run, tools, cache, introspections,
                   writes, mappingPasses, started>>

\* Mutant: the failure is remembered as an empty allowlist in the cache slot.
SignatureFailsCached(c) ==
    LET t == calls[c].tool IN
    /\ InWrapper(c)
    /\ IsDict(Arguments(c))
    /\ ~cache[t].has
    /\ ~tools[t].fn.introspectable
    /\ introspections' = [introspections EXCEPT ![t] = @ + 1]
    /\ mappingPasses' = [mappingPasses EXCEPT ![t] = @ + 1]
    /\ cache' = [cache EXCEPT ![t] = Attr(<<>>)]
    /\ writes' = [writes EXCEPT ![t] = @ \cup {<<>>}]
    /\ calls' = [calls EXCEPT ![c].pc = "done",
                              ![c].passes = @ + 1,
                              ![c].steps = Append(@, "introspection error"),
                              ![c].outcome = [kind |-> "raise", val |-> "ValueError"]]
    /\ UNCHANGED <<FunctionTool_run, installs, original_run, tools, started>>

\* Lines 42-43: the cache slot is empty and inspect.signature raises.
SignatureFails(c) ==
    LET t == calls[c].tool IN
    /\ InWrapper(c)
    /\ IsDict(Arguments(c))
    /\ ~HasCache(cache[t])
    /\ ~tools[t].fn.introspectable
    /\ introspections' = [introspections EXCEPT ![t] = @ + 1]
    /\ mappingPasses' = [mappingPasses EXCEPT ![t] = @ + 1]
    /\ calls' = [calls EXCEPT ![c].pc = "done",
                              ![c].passes = @ + 1,
                              ![c].steps = Append(@, "introspection error"),
                              ![c].outcome = [kind |-> "raise", val |-> "ValueError"]]
    /\ UNCHANGED <<FunctionTool_run, installs, original_run, tools, cache, writes, started>>

\* Mutant: the unknown keys are deleted from the caller's dict, which is then
\* passed on itself.
SanitizeInPlace(c) ==
    LET t == calls[c].tool
        arguments == Arguments(c)
        miss == ~cache[t].has
    IN
    /\ InWrapper(c)
    /\ IsDict(arguments)
    /\ miss => tools[t].fn.introspectable
    /\ LET slot == IF miss THEN Attr([i \in DOMAIN tools[t].fn.parameters |->
                                        tools[t].fn.parameters[i].name])
                   ELSE cache[t]
           allowed == slot.value
           kept == { k \in DOMAIN arguments.map : \E i \in DOMAIN allowed : allowed[i] = k }
           sanitized == [kind |-> "dict", map |-> [k \in kept |-> arguments.map[k]]]
       IN
       /\ cache' = [cache EXCEPT ![t] = slot]
       /\ introspections' = [introspections EXCEPT ![t] = IF miss THEN @ + 1 ELSE @]
       /\ writes' = [writes EXCEPT ![t] = IF miss THEN @ \cup {slot.value} ELSE @]
       /\ mappingPasses' = [mappingPasses EXCEPT ![t] = @ + 1]
       /\ calls' = [calls EXCEPT
              ![c].callee = original_run[calls[c].callee],
              ![c].passes = @ + 1,
              ![c].objs[calls[c].cur] = sanitized,
              ![c].used = Append(@, allowed),
              ![c].diags = @ \o Diagnostics(t, sanitized, arguments, allowed),
              ![c].steps = @ \o <<"resolve", "sanitize">>]
    /\ UNCHANGED <<FunctionTool_run, installs, original_run, tools, started>>

\* Lines 42-54 up to the await: resolve the allowlist, build the sanitized
\* dict, log the dropped keys, call _original_run with the new dict.
SanitizeAndCall(c) ==
    LET t == calls[c].tool
        arguments == Arguments(c)
        miss == ~HasCache(cache[t])
    IN
    /\ InWrapper(c)
    /\ IsDict(arguments)
    /\ miss => tools[t].fn.introspectable
    /\ LET slot == IF miss THEN Attr(ParameterNames(tools[t].fn.parameters)) ELSE cache[t]
           allowed == slot.value
           sanitized == Sanitized(arguments, allowed)
       IN
       /\ cache' = [cache EXCEPT ![t] = slot]
       /\ introspections' = [introspections EXCEPT ![t] = IF miss THEN @ + 1 ELSE @]
       /\ writes' = [writes EXCEPT ![t] = IF miss THEN @ \cup {slot.value} ELSE @]
       /\ mappingPasses' = [mappingPasses EXCEPT ![t] = @ + 1]
       /\ calls' = [calls EXCEPT
              ![c].callee = original_run[calls[c].callee],
              ![c].passes = @ + 1,
              ![c].objs = Append(@, sanitized),
              ![c].cur = Len(calls[c].objs) + 1,
              ![c].used = Append(@, allowed),
              ![c].diags = @ \o Diagnostics(t, sanitized, arguments, allowed),
              ![c].steps = @ \o <<"resolve", "sanitize">>]
    /\ UNCHANGED <<FunctionTool_run, installs, original_run, tools, started>>

\* The genuine FunctionTool.run starts with the payload it was handed.
GenuineInvoke(c) ==
    /\ calls[c].pc = "call"
    /\ calls[c].callee = Genuine
    /\ calls' = [calls EXCEPT ![c].pc = "awaiting",
                              ![c].received = Append(@, Arguments(c)),
                              ![c].steps = Append(@, "invoke")]
    /\ UNCHANGED <<FunctionTool_run, installs, original_run, tools, cache, introspections,
                   writes, mappingPasses, started>>

\* What the genuine run may do to the dict it was handed: nothing, or empty it.
AfterOriginal(obj, clears) ==
    IF clears /\ IsDict(obj) THEN [obj EXCEPT !.map = EmptyMap] ELSE obj

\* The genuine run ends; every wrapper frame above it returns what it awaited.
GenuineFinish(c, o, clears) ==
    /\ calls[c].pc = "awaiting"
    /\ calls' = [calls EXCEPT ![c].pc = "done",
                              ![c].objs[calls[c].cur] = AfterOriginal(@, clears),
                              ![c].origOutcome = o,
                              ![c].outcome = PassThrough(o),
                              ![c].steps = Append(@, "passthrough")]
    /\ UNCHANGED <<FunctionTool_run, installs, original_run, tools, cache, introspections,
                   writes, mappingPasses, started>>

\* The event loop: the wrapper runs from its first line to its await without
\* another coroutine running in between.
Next ==
    \/ \E c \in Tasks, t \in Tools, p \in Payloads : Begin(c, t, p)
    \/ \E c \in Tasks : DelegateUnchanged(c)
    \/ \E c \in Tasks : SignatureFails(c)
    \/ \E c \in Tasks : SanitizeAndCall(c)
    \/ \E c \in Tasks : GenuineInvoke(c)
    \/ \E c \in Tasks, o \in Outcomes, clears \in BOOLEAN : GenuineFinish(c, o, clears)

Spec == Init /\ [][Next]_vars

(* ------------------ threads: the wrapper line by line ------------------ *)

\* A wrapper frame of call c stands before the given line.
AtLine(c, l) ==
    /\ calls[c].pc = "call"
    /\ calls[c].callee \in Modules
    /\ calls[c].line = l

\* Line 42: hasattr(self, "_allowed_parameter_names")
T_HasAttr(c) ==
    /\ InWrapper(c)
    /\ IsDict(Arguments(c))
    /\ mappingPasses' = [mappingPasses EXCEPT ![calls[c].tool] = @ + 1]
    /\ calls' = [calls EXCEPT ![c].line =
                    IF HasCache(cache[calls[c].tool]) THEN "getattr" ELSE "signature"]
    /\ UNCHANGED <<FunctionTool_run, installs, original_run, tools, cache, introspections,
                   writes, started>>

\* Lines 43-44, right-hand side: inspect.signature raises, or the tuple of
\* the parameter names is built in a local.
T_Signature(c) ==
    LET t == calls[c].tool IN
    /\ AtLine(c, "signature")
    /\ introspections' = [introspections EXCEPT ![t] = @ + 1]
    /\ calls' = IF tools[t].fn.introspectable
                THEN [calls EXCEPT ![c].line = "setattr",
                                   ![c].signature = ParameterNames(tools[t].fn.parameters)]
                ELSE [calls EXCEPT ![c].pc = "done",
                                   ![c].line = "entry",
                                   ![c].passes = @ + 1,
                                   ![c].steps = Append(@, "introspection error"),
                                   ![c].outcome = [kind |-> "raise", val |-> "ValueError"]]
    /\ UNCHANGED <<FunctionTool_run, installs, original_run, tools, cache, writes,
                   mappingPasses, started>>

\* Mutant: the slot is first bound to a list that is then filled name by name.
T_SetAttrPartial(c) ==
    LET t == calls[c].tool IN
    /\ AtLine(c, "setattr")
    /\ \E n \in 0..Len(calls[c].signature) :
          /\ cache' = [cache EXCEPT ![t] = Attr(SubSeq(calls[c].signature, 1, n))]
          /\ writes' = [writes EXCEPT ![t] = @ \cup {SubSeq(calls[c].signature, 1, n)}]
          /\ calls' = [calls EXCEPT ![c].line =
                          IF n = Len(calls[c].signature) THEN "getattr" ELSE "setattr"]
    /\ UNCHANGED <<FunctionTool_run, installs, original_run, tools, introspections,
                   mappingPasses, started>>

\* Line 44, the store: self._allowed_parameter_names = <the finished tuple>
T_SetAttr(c) ==
    LET t == calls[c].tool IN
    /\ AtLine(c, "setattr")
    /\ cache' = [cache EXCEPT ![t] = Attr(calls[c].signature)]
    /\ writes' = [writes EXCEPT ![t] = @ \cup {calls[c].signature}]
    /\ calls' = [calls EXCEPT ![c].line = "getattr"]
    /\ UNCHANGED <<FunctionTool_run, installs, original_run, tools, introspections,
                   mappingPasses, started>>

\* Line 46: allowed = getattr(self, "_allowed_parameter_names")
T_GetAttr(c) ==
    /\ AtLine(c, "getattr")
    /\ HasCache(cache[calls[c].tool])
    /\ calls' = [calls EXCEPT ![c].line = "sanitize",
                              ![c].allowed = cache[calls[c].tool].value,
                              ![c].steps = Append(@, "resolve")]
    /\ UNCHANGED <<FunctionTool_run, installs, original_run, tools, cache, introspections,
                   writes, mappingPasses, started>>

\* Lines 47-54 up to the await.
T_Sanitize(c) ==
    LET t == calls[c].tool
        arguments == Arguments(c)
        allowed == calls[c].allowed
        sanitized == Sanitized(arguments, allowed)
    IN
    /\ AtLine(c, "sanitize")
    /\ calls' = [calls EXCEPT
           ![c].line = "entry",
           ![c].callee = original_run[calls[c].callee],
           ![c].passes = @ + 1,
           ![c].objs = Append(@, sanitized),
           ![c].cur = Len(calls[c].objs) + 1,
           ![c].used = Append(@, allowed),
           ![c].diags = @ \o Diagnostics(t, sanitized, arguments, allowed),
           ![c].steps = Append(@, "sanitize")]
    /\ UNCHANGED <<FunctionTool_run, installs, original_run, tools, cache, introspections,
                   writes, mappingPasses, started>>

\* Threads: any thread may run between any two lines of another.
NextThreads ==
    \/ \E c \in Tasks, t \in Tools, p \in Payloads : Begin(c, t, p)
    \/ \E c \in Tasks : DelegateUnchanged(c)
    \/ \E c \in Tasks : T_HasAttr(c)
    \/ \E c \in Tasks : T_Signature(c)
    \/ \E c \in Tasks : T_SetAttr(c)
    \/ \E c \in Tasks : T_GetAttr(c)
    \/ \E c \in Tasks : T_Sanitize(c)
    \/ \E c \in Tasks : GenuineInvoke(c)
    \/ \E c \in Tasks, o \in Outcomes, clears \in BOOLEAN : GenuineFinish(c, o, clears)

SpecThreads == Init /\ [][NextThreads]_vars

(* --------------- the module's top-level code run again ----------------- *)

\* Lines 24 and 58 executed in module namespace m (a reload of the module,
\* or its import under another module name): _original_run is bound to
\* whatever FunctionTool.run is now, and the namespace's wrapper is installed.
Install(m) ==
    /\ installs < MaxInstalls
    /\ installs' = installs + 1
    /\ original_run' = [original_run EXCEPT ![m] = FunctionTool_run]
    /\ FunctionTool_run' = m
    /\ UNCHANGED <<tools, cache, introspections, writes, mappingPasses, started, calls>>

\* The interpreter refuses one more frame.
RecursionOverflow(c) ==
    /\ calls[c].pc = "call"
    /\ calls[c].callee \in Modules
    /\ calls[c].passes >= RecursionLimit
    /\ calls' = [calls EXCEPT ![c].pc = "done",
                              ![c].outcome = [kind |-> "raise", val |-> "RecursionError"]]
    /\ UNCHANGED <<FunctionTool_run, installs, original_run, tools, cache, introspections,
                   writes, mappingPasses, started>>

NextInstall ==
    \/ \E c \in Tasks, t \in Tools, p \in Payloads : Begin(c, t, p)
    \/ \E c \in Tasks : DelegateUnchanged(c)
    \/ \E c \in Tasks : SignatureFails(c)
    \/ \E c \in Tasks : SanitizeAndCall(c)
    \/ \E c \in Tasks : GenuineInvoke(c)
    \/ \E c \in Tasks, o \in Outcomes, clears \in BOOLEAN : GenuineFinish(c, o, clears)
    \/ \E m \in Modules : Install(m)
    \/ \E c \in Tasks : RecursionOverflow(c)

SpecInstall == Init /\ [][NextInstall]_vars

(* ------------------------------- claims -------------------------------- *)

\* The allowlist of a tool: the parameter names of its callable, in
\* declaration order.
FullAllowlist(t) == [i \in DOMAIN tools[t].fn.parameters |-> tools[t].fn.parameters[i].name]

Started(c) == calls[c].pc # "idle"
Done(c) == calls[c].pc = "done"
Invoked(c) == calls[c].received # <<>>
IntrospectionError == [kind |-> "raise", val |-> "ValueError"]
IsPrefix(s, t) == Len(s) <= Len(t) /\ \A i \in 1..Len(s) : s[i] = t[i]
AllSteps == <<"resolve", "sanitize", "invoke", "passthrough">>
DroppedKeys(c) == DOMAIN calls[c].arg.map \ Range(FullAllowlist(calls[c].tool))
KeptKeys(c) == DOMAIN calls[c].arg.map \cap Range(FullAllowlist(calls[c].tool))

\* C1: the dict the original run receives for a dict payload P holds exactly
\* the entries of P whose key is a parameter name of the callable, with P's
\* values, and no other key (no parameter absent from P is added).
C1_SanitizedExactly ==
    \A c \in Tasks :
        (Invoked(c) /\ IsDict(calls[c].arg)) =>
            LET R == calls[c].received[1] IN
            /\ Len(calls[c].received) = 1
            /\ R.kind = "dict"
            /\ DOMAIN R.map = KeptKeys(c)
            /\ \A k \in DOMAIN R.map : R.map[k] = calls[c].arg.map[k]

\* A finished call whose dict payload had a key to keep and a key to drop.
C1_Witness ==
    \E c \in Tasks :
        /\ Done(c) /\ Invoked(c) /\ IsDict(calls[c].arg)
        /\ KeptKeys(c) # {} /\ DroppedKeys(c) # {}

\* C2: a payload that is not a dict reaches the original run as the very same
\* object, unchanged, whatever the allowlist; nothing is dropped and no
\* diagnostic record is emitted.
C2_NonMappingUnchanged ==
    \A c \in Tasks :
        (Started(c) /\ ~IsDict(calls[c].arg)) =>
            /\ calls[c].cur = 1
            /\ calls[c].objs = <<calls[c].arg>>
            /\ calls[c].diags = <<>>
            /\ calls[c].used = <<>>
            /\ Invoked(c) => calls[c].received = <<calls[c].arg>>
            /\ Done(c) => Invoked(c)

\* A finished call with a list payload on a tool that has parameters.
C2_Witness ==
    \E c \in Tasks :
        /\ Done(c) /\ calls[c].arg.kind = "list" /\ Invoked(c)
        /\ FullAllowlist(calls[c].tool) # <<>>

\* C3 as stated: over any sequence of calls on a registration the signature is
\* introspected at most once.
C3_Original == \A t \in Tools : introspections[t] <= 1

\* C3 amended: a callable whose signature can be introspected is introspected
\* at most once, every sanitizing call uses the callable's parameter names in
\* declaration order, the slot only ever receives that value, and a written
\* slot never changes.
C3_IntrospectedOnceIfPossible ==
    /\ [](\A t \in Tools :
            /\ tools[t].fn.introspectable => introspections[t] <= 1
            /\ writes[t] \subseteq {FullAllowlist(t)}
            /\ cache[t].has => cache[t].value = FullAllowlist(t))
    /\ [](\A c \in Tasks : \A i \in DOMAIN calls[c].used :
            calls[c].used[i] = FullAllowlist(calls[c].tool))
    /\ [][\A t \in Tools : cache[t].has => cache'[t] = cache[t]]_vars

\* Two finished dict calls on one tool after a single introspection.
C3_Witness ==
    \E c, d \in Tasks :
        /\ c # d
        /\ Done(c) /\ Done(d) /\ Invoked(c) /\ Invoked(d)
        /\ calls[c].tool = calls[d].tool
        /\ IsDict(calls[c].arg) /\ IsDict(calls[d].arg)
        /\ introspections[calls[c].tool] = 1
        /\ Len(FullAllowlist(calls[c].tool)) = 2

\* C4 as stated: however often the installation code has run, a call passes
\* the sanitizer once and reaches the genuine run exactly once.
C4_Original ==
    \A c \in Tasks :
        (Done(c) /\ calls[c].outcome # IntrospectionError) =>
            /\ calls[c].passes = 1
            /\ Len(calls[c].received) = 1

\* C5: the outcome of the wrapped call is the outcome of the original run:
\* the same value, or the same error.
C5_OutcomePassedThrough ==
    \A c \in Tasks :
        (Done(c) /\ Invoked(c)) =>
            /\ calls[c].origOutcome \in Outcomes
            /\ calls[c].outcome = calls[c].origOutcome

\* A finished call, with a key dropped, whose original run raised.
C5_Witness ==
    \E c \in Tasks :
        /\ Done(c) /\ Invoked(c) /\ IsDict(calls[c].arg) /\ DroppedKeys(c) # {}
        /\ calls[c].outcome = [kind |-> "raise", val |-> "ValidationError"]

\* C6: a dict call with a key outside the allowlist emits exactly one
\* diagnostic record, with the tool's name and the dropped keys in ascending
\* order; the call goes on to the original run; with no key dropped there is
\* no record.
C6_DiagnosticOnDrop ==
    \A c \in Tasks :
        (IsDict(calls[c].arg) /\ calls[c].used # <<>>) =>
            /\ IF DroppedKeys(c) = {}
               THEN calls[c].diags = <<>>
               ELSE /\ Len(calls[c].diags) = 1
                    /\ calls[c].diags[1].name = tools[calls[c].tool].name
                    /\ LET r == calls[c].diags[1].removed IN
                       /\ Range(r) = DroppedKeys(c)
                       /\ \A i, j \in DOMAIN r : i < j => r[i] < r[j]
            /\ Done(c) => (Invoked(c) /\ calls[c].outcome = calls[c].origOutcome)

\* A finished call in which two keys were dropped.
C6_Witness ==
    \E c \in Tasks :
        /\ Done(c) /\ IsDict(calls[c].arg) /\ calls[c].used # <<>>
        /\ Cardinality(DroppedKeys(c)) >= 2
        /\ calls[c].outcome.kind = "return"

\* C7 as stated: every finished call, whatever its payload, resolved the
\* allowlist, sanitized, invoked the original once and passed its outcome on.
C7_Original ==
    \A c \in Tasks :
        Done(c) => (calls[c].steps = AllSteps /\ Len(calls[c].received) = 1)

\* C7 amended: a dict call resolves, sanitizes, invokes the original once with
\* the sanitized dict and passes the outcome on, in this order, or ends at the
\* resolution when the introspection fails; a call whose payload is not a dict
\* skips resolution and sanitization and only invokes the original once and
\* passes the outcome on. The original is never invoked with a dict before
\* the allowlist is resolved.
C7_OrderOfSteps ==
    \A c \in Tasks :
        Started(c) =>
            /\ Len(calls[c].received) <= 1
            /\ IF IsDict(calls[c].arg)
               THEN /\ \/ IsPrefix(calls[c].steps, AllSteps)
                       \/ calls[c].steps = <<"introspection error">>
                    /\ Done(c) => \/ calls[c].steps = AllSteps
                                  \/ /\ calls[c].steps = <<"introspection error">>
                                     /\ ~Invoked(c)
                    /\ Invoked(c) =>
                          /\ cache[calls[c].tool].has
                          /\ DOMAIN calls[c].received[1].map = KeptKeys(c)
               ELSE /\ IsPrefix(calls[c].steps, <<"invoke", "passthrough">>)
                    /\ Done(c) => /\ calls[c].steps = <<"invoke", "passthrough">>
                                  /\ calls[c].received = <<calls[c].arg>>

\* The original has run on a payload that is not a dict while the allowlist
\* of an introspectable callable was never resolved.
C7_Witness ==
    \E c \in Tasks :
        /\ Done(c) /\ ~IsDict(calls[c].arg) /\ Invoked(c)
        /\ tools[calls[c].tool].fn.introspectable
        /\ ~cache[calls[c].tool].has
        /\ introspections[calls[c].tool] = 0

\* C8 as stated: a call that failed in the introspection did not invoke the
\* original and did not write the slot, and the introspection is attempted
\* at most once on the registration.
C8_Original ==
    \A c \in Tasks :
        (Done(c) /\ calls[c].outcome = IntrospectionError) =>
            /\ ~Invoked(c)
            /\ ~cache[calls[c].tool].has
            /\ introspections[calls[c].tool] <= 1

\* C8 amended: when the signature cannot be introspected, every dict call
\* fails with the introspection error without invoking the original and
\* without writing the slot, and every dict call attempts the introspection
\* again.
C8_FailsAndIsAttemptedAgain ==
    \A t \in Tools :
        ~tools[t].fn.introspectable =>
            /\ ~cache[t].has
            /\ writes[t] = {}
            /\ introspections[t] = mappingPasses[t]
            /\ \A c \in Tasks :
                  (calls[c].tool = t /\ IsDict(calls[c].arg)) =>
                      /\ ~Invoked(c)
                      /\ Done(c) => calls[c].outcome = IntrospectionError

\* A second dict call has failed in the introspection on the same tool.
C8_Witness ==
    \E c \in Tasks :
        /\ Done(c) /\ calls[c].outcome = IntrospectionError
        /\ introspections[calls[c].tool] >= 2
        /\ started >= 2

\* C9: the caller's payload object is what it was when the call began, and
\* the dict the original receives is another object than the caller's dict.
C9_CallerPayloadUntouched ==
    \A c \in Tasks :
        Started(c) =>
            /\ calls[c].objs[1] = calls[c].arg
            /\ (IsDict(calls[c].arg) /\ Invoked(c)) => calls[c].cur # 1

\* A finished call with a key dropped and a key kept, whose original run
\* emptied the dict it had received.
C9_Witness ==
    \E c \in Tasks :
        /\ Done(c) /\ Invoked(c) /\ IsDict(calls[c].arg)
        /\ DroppedKeys(c) # {} /\ KeptKeys(c) # {}
        /\ calls[c].received[1].map # EmptyMap
        /\ calls[c].objs[calls[c].cur].map = EmptyMap

\* C10: with threads interleaved line by line, the slot is absent or holds
\* the complete allowlist, every store writes that same value, and every
\* call filters against the complete allowlist.
C10_AllowlistNeverPartial ==
    /\ \A t \in Tools :
          /\ cache[t].has => (tools[t].fn.introspectable /\ cache[t].value = FullAllowlist(t))
          /\ writes[t] \subseteq {FullAllowlist(t)}
    /\ \A c \in Tasks :
          /\ (Started(c) /\ calls[c].line = "sanitize") =>
                 calls[c].allowed = FullAllowlist(calls[c].tool)
          /\ \A i \in DOMAIN calls[c].used : calls[c].used[i] = FullAllowlist(calls[c].tool)
          /\ (Invoked(c) /\ IsDict(calls[c].arg)) =>
                 /\ DOMAIN calls[c].received[1].map = KeptKeys(c)
                 /\ \A k \in KeptKeys(c) : calls[c].received[1].map[k] = calls[c].arg.map[k]

\* Two first calls both missed the cache, both introspected and both stored,
\* and both finished with a key dropped.
C10_Witness ==
    \E c, d \in Tasks :
        /\ c # d
        /\ Done(c) /\ Done(d) /\ Invoked(c) /\ Invoked(d)
        /\ calls[c].tool = calls[d].tool
        /\ IsDict(calls[c].arg) /\ IsDict(calls[d].arg)
        /\ introspections[calls[c].tool] = 2
        /\ Len(FullAllowlist(calls[c].tool)) >= 1
        /\ DroppedKeys(c) # {} /\ DroppedKeys(d) # {}

====
